---------------------------- MODULE Spec2Model ----------------------------
(***************************************************************************)
(* Model of src/engine/zzlib.cpp (namespace Compression): unzipData,       *)
(* zipData, unzipStream, zipStreamBuf and CreateImageFromZlib.             *)
(*                                                                         *)
(* Byte buffers are sequences of naturals.  The zlib library, the binary   *)
(* streams and the image class are collaborators of the file: zlib is      *)
(* modelled as a small run-length codec that has the contract of           *)
(* compress()/uncompress() (Z_OK, Z_BUF_ERROR when the output buffer is    *)
(* too small, Z_DATA_ERROR on a malformed stream), streams as byte         *)
(* sequences with a fail flag, the image as a record of two planes.        *)
(*                                                                         *)
(* Sizes are scaled: max_size stands for std::vector::max_size() and       *)
(* ULongMax for the largest uLong, with max_size <= ULongMax as on an LP64 *)
(* build.                                                                  *)
(***************************************************************************)
EXTENDS Integers, Sequences, FiniteSets, TLC

(* ------------------------------ bounds -------------------------------- *)

\* std::vector<uint8_t>::max_size(), scaled.
max_size == 64

\* Largest value of zlib's uLong, scaled (never below max_size).
ULongMax == 255

\* Longest source buffer handed to the primitives and the image decoder.
MaxLen == 4

\* Longest source buffer written to the stream by zipStreamBuf.
MaxStreamLen == 1

\* Most blocks put on the stream.
MaxBlocks == 2

\* Largest image dimension tried (the smallest is -1).
MaxDim == 5

\* Capacity of a bounded (file-like) stream the blocks are written to.
WireCap == 13

\* Capacity of a bounded (file-like) stream unzipStream writes to.
OutCap == 1

(* ----------------------------- constants ------------------------------ *)

FORMAT_VERSION_0 == 0

\* sizeMultiplier of the initial guess (line 55) and of the retry (line 76).
sizeMultiplier == 7

growMultiplier == 2

Z_OK == 0

Z_BUF_ERROR == -5

Z_DATA_ERROR == -3

Z_MEM_ERROR == -4

\* A stream without a capacity (an in-memory buffer that reallocates).
NoCap == -1

(* ------------------------------ helpers ------------------------------- *)

Min(a, b) == IF a < b THEN a ELSE b

Max(a, b) == IF a < b THEN b ELSE a

\* Byte values of the payload data.
Vals == {0, 1}

Fill(v, n) == [i \in 1..n |-> v]

SeqsUpTo(S, n) == UNION {[1..k -> S] : k \in 0..n}

Drop(s, k) == SubSeq(s, k + 1, Len(s))

Take(s, k) == SubSeq(s, 1, k)

\* static_cast<uLong>( size_t ): the value modulo the range of uLong.
ToULong(n) == n % (ULongMax + 1)


(* ------------------- zlib: compress / uncompress ---------------------- *)
(* The library is not part of the file.  Its model is a run-length codec:  *)
(* a compressed stream is a sequence of run bytes, one for each run of at  *)
(* most RunBase equal bytes, closed by a one-byte checksum of the data (as *)
(* a zlib stream is closed by the Adler-32 of the data).  A checksum byte  *)
(* is 0 or 1 and a run byte is 2 or more.  Bytes after the checksum are    *)
(* ignored, as uncompress() ignores what follows the end of the stream.    *)

RunBase == 32

RunByte(v, n) == 2 + v * RunBase + (n - 1)

IsCheck(b) == b < 2

IsRun(b) == b >= 2 /\ b < 2 + RunBase * Cardinality(Vals)

RunVal(b) == (b - 2) \div RunBase

RunLen(b) == ((b - 2) % RunBase) + 1

\* A byte that is neither a run nor a checksum.
BadByte == 255

\* The checksum of the data B: the parity of the sum of its bytes.
RECURSIVE Checksum(_)
Checksum(B) == IF B = <<>> THEN 0 ELSE (B[1] + Checksum(Tail(B))) % 2

\* Length of the run of equal bytes B starts with, at most RunBase.
RECURSIVE LeadRun(_)
LeadRun(B) ==
    IF Len(B) <= 1 THEN Len(B)
    ELSE IF B[2] # B[1] THEN 1
    ELSE LET n == LeadRun(Tail(B)) IN IF n < RunBase THEN n + 1 ELSE RunBase

RECURSIVE Runs(_)
Runs(B) ==
    IF B = <<>> THEN <<>>
    ELSE LET n == LeadRun(B)
         IN  <<RunByte(B[1], n)>> \o Runs(Drop(B, n))

\* The compressed stream of B.
Deflate(B) == Runs(B) \o <<Checksum(B)>>

\* compressBound( sourceLen ): no stream of Deflate is longer.
compressBound(n) == n + 1

\* compress( dest, &destLen, source, sourceLen ) on a buffer of destLen bytes.
compress(B, destLen) ==
    LET z == Deflate(B)
    IN  IF Len(z) > destLen
        THEN [ret |-> Z_BUF_ERROR, len |-> destLen, data |-> <<>>]
        ELSE [ret |-> Z_OK, len |-> Len(z), data |-> z]

\* Inflate src from byte i on, acc being the output so far, into a buffer of
\* destLen bytes.  The output buffer running full is Z_BUF_ERROR; the input
\* running out before the checksum is Z_DATA_ERROR while output space is left
\* and Z_BUF_ERROR when none is (uncompress() of zlib 1.2.9 and later).
RECURSIVE Inflate(_, _, _, _)
Inflate(src, i, acc, destLen) ==
    IF i > Len(src)
    THEN [ret |-> IF Len(acc) = destLen THEN Z_BUF_ERROR ELSE Z_DATA_ERROR,
          len |-> Len(acc), data |-> acc]
    ELSE IF IsCheck(src[i])
    THEN [ret |-> IF src[i] = Checksum(acc) THEN Z_OK ELSE Z_DATA_ERROR,
          len |-> Len(acc), data |-> acc]
    ELSE IF ~IsRun(src[i])
    THEN [ret |-> Z_DATA_ERROR, len |-> Len(acc), data |-> acc]
    ELSE IF Len(acc) + RunLen(src[i]) > destLen
    THEN [ret |-> Z_BUF_ERROR, len |-> destLen, data |-> acc]
    ELSE Inflate(src, i + 1, acc \o Fill(RunVal(src[i]), RunLen(src[i])), destLen)

\* uncompress( dest, &destLen, source, sourceLen ) on a buffer of destLen bytes.
uncompress(src, destLen) == Inflate(src, 1, <<>>, destLen)

\* What a library call may answer.  "zlib": the codec above.  "any": any
\* return code at all, and on Z_OK any length that fits the buffer.
compressAnswers(mode, B, destLen) ==
    IF mode = "zlib" THEN {compress(B, destLen)}
    ELSE {compress(B, destLen)}
         \cup {[ret |-> r, len |-> 0, data |-> <<>>] :
                  r \in {Z_BUF_ERROR, Z_MEM_ERROR}}

uncompressAnswers(mode, src, destLen) ==
    IF mode = "zlib" THEN {uncompress(src, destLen)}
    ELSE {uncompress(src, destLen)}
         \cup {[ret |-> r, len |-> 0, data |-> <<>>] :
                  r \in {Z_BUF_ERROR, Z_DATA_ERROR, Z_MEM_ERROR}}
         \cup {[ret |-> Z_OK, len |-> n, data |-> Fill(0, n)] :
                  n \in {0, destLen}}

(* -------------------- binary streams (serialize.h) -------------------- *)
(* A stream is [bytes, rpos, fail, cap]: the bytes it holds, how many of   *)
(* them have been read, its fail() flag, and its capacity (NoCap: none).   *)
(* A write beyond the capacity keeps the bytes that fit and sets fail; a   *)
(* read beyond the end yields zero bytes and sets fail.  Integers are      *)
(* little-endian.                                                          *)

NewStream(cap) == [bytes |-> <<>>, rpos |-> 0, fail |-> FALSE, cap |-> cap]

putRaw(s, data) ==
    LET room == IF s.cap = NoCap THEN Len(data)
                ELSE Max(0, s.cap - Len(s.bytes))
        k    == Min(room, Len(data))
    IN  [s EXCEPT !.bytes = @ \o Take(data, k), !.fail = @ \/ k < Len(data)]

\* The low `n` bytes of v, least significant first: a wider v is truncated.
RECURSIVE LEBytes(_, _)
LEBytes(v, n) ==
    IF n = 0 THEN <<>> ELSE <<v % 256>> \o LEBytes(v \div 256, n - 1)

RECURSIVE LEValue(_)
LEValue(b) ==
    IF b = <<>> THEN 0 ELSE b[1] + 256 * LEValue(Tail(b))

put32(s, v) == putRaw(s, LEBytes(v, 4))

put16(s, v) == putRaw(s, LEBytes(v, 2))

\* [s |-> the stream after the read, v |-> the n bytes read].
getRaw(s, n) ==
    LET avail == Len(s.bytes) - s.rpos
        k     == Min(n, avail)
    IN  [s |-> [s EXCEPT !.rpos = @ + k, !.fail = @ \/ k < n],
         v |-> SubSeq(s.bytes, s.rpos + 1, s.rpos + k) \o Fill(0, n - k)]

get32(s) == LET r == getRaw(s, 4) IN [s |-> r.s, v |-> LEValue(r.v)]

get16(s) == LET r == getRaw(s, 2) IN [s |-> r.s, v |-> LEValue(r.v)]

skip(s, n) == [s EXCEPT !.rpos = Min(@ + n, Len(s.bytes))]

(* --------------------------- fheroes2::Image -------------------------- *)
(* [width, height, image, transform, singleLayer]; a default-constructed   *)
(* image is empty.  resize() allocates width * height bytes for the image  *)
(* plane and, unless the transform layer is disabled, as many for the      *)
(* transform plane; it does not initialise them: a byte nothing has been   *)
(* written to is Junk, which is no byte value.                             *)

Junk == -1

EmptyImage ==
    [width |-> 0, height |-> 0, image |-> <<>>, transform |-> <<>>,
     singleLayer |-> FALSE]

disableTransformLayer(img) == [img EXCEPT !.singleLayer = TRUE]

resize(img, w, h) ==
    [img EXCEPT !.width = w, !.height = h,
                !.image = Fill(Junk, w * h),
                !.transform = IF img.singleLayer THEN <<>>
                              ELSE Fill(Junk, w * h)]

\* std::memcpy( plane, data, n ): the first n bytes of the plane are data's.
memcpy(plane, data, n) == Take(data, n) \o Drop(plane, n)

(* ------------------------------- state -------------------------------- *)

VARIABLES
    lib,        \* "zlib": the library is the codec; "any": it answers anything
    wire,       \* the stream zipStreamBuf writes to and unzipStream reads from
    out,        \* the stream unzipStream writes to
    pc,         \* "idle"; "loop": in the while loop of unzipData (line 75);
                \* "ret": unzipData has returned to its caller
    call,       \* the operation in progress, or the last one, and its arguments
    frame,      \* the header fields unzipStream has read
    src,        \* the compressed bytes unzipData works on
    resSize,    \* res.size(): the size of unzipData's working buffer
    ret,        \* what the operation returned: a vector, a bool or an image
    logged,     \* ERROR_LOG was called during the operation
    libCalls,   \* calls of compress()/uncompress() during the operation
    pre,        \* the streams as they were when the operation began
    written,    \* the blocks put on the wire, in order
    reads       \* the unzipStream calls that have returned, in order

vars == <<lib, wire, out, pc, call, frame, src, resSize, ret, logged, libCalls,
          pre, written, reads>>

(* ------------------------------- zipData ------------------------------ *)

\* zipData( src, srcSize ), lines 105-132: what it may return, with whether
\* it logged and how often it called the library.
zipData(mode, null, B, srcSize) ==
    IF null \/ srcSize = 0
    THEN {[data |-> <<>>, logged |-> FALSE, libCalls |-> 0]}
    ELSE IF ToULong(srcSize) # srcSize
    THEN {[data |-> <<>>, logged |-> TRUE, libCalls |-> 0]}
    ELSE LET bound == compressBound(ToULong(srcSize))
         IN  IF ToULong(bound) # bound
             THEN {[data |-> <<>>, logged |-> TRUE, libCalls |-> 0]}
             ELSE {IF r.ret # Z_OK
                   THEN [data |-> <<>>, logged |-> TRUE, libCalls |-> 1]
                   ELSE [data |-> Take(r.data, r.len), logged |-> FALSE,
                         libCalls |-> 1] :
                   r \in compressAnswers(mode, B, bound)}

(* ------------------------------- inputs ------------------------------- *)

\* Source lengths around the sizes the working buffer of unzipData takes for
\* a two-byte compressed stream: 14, then 28.
LongLens ==
    {2 * sizeMultiplier, 2 * sizeMultiplier + 1,
     2 * sizeMultiplier * growMultiplier,
     2 * sizeMultiplier * growMultiplier + 1}

LongRuns == {Fill(v, n) : v \in Vals, n \in LongLens}

\* What zipData makes of B with the library as modelled.
Zipped(B) == (CHOOSE z \in zipData("zlib", FALSE, B, Len(B)) : TRUE).data

\* Non-empty source buffers.
Buffers == (SeqsUpTo(Vals, MaxLen) \ {<<>>}) \cup LongRuns

\* Source buffers written to the stream: the short ones, one of two runs, and
\* runs long enough for unzipData to double its buffer; the empty one is
\* refused.
StreamBuffers ==
    SeqsUpTo(Vals, MaxStreamLen)
        \cup {<<0, 1>>}
        \cup {Fill(v, n) : v \in Vals,
                           n \in {2 * sizeMultiplier + 1,
                                  2 * sizeMultiplier * growMultiplier + 1}}

\* A valid stream longer than max_size / 7 bytes that inflates to more bytes
\* than it has.
LongSrc ==
    Fill(RunByte(0, 1), max_size \div sizeMultiplier)
        \o <<RunByte(0, RunBase), Checksum(<<>>)>>

\* Compressed inputs of unzipData and CreateImageFromZlib: what zipData makes
\* of the source buffers, a valid stream of no bytes, a truncated stream, a
\* malformed one, one with a wrong checksum, a long one.
Sources ==
    {Zipped(B) : B \in Buffers}
        \cup {Deflate(<<>>), Runs(<<0>>), <<BadByte>> \o Deflate(<<0>>),
              Runs(<<1>>) \o <<0>>, LongSrc}

RealSizes == {0, 1, 2, max_size \div growMultiplier,
              max_size \div growMultiplier + 1, max_size}

Dims == -1..MaxDim

NoCall ==
    [op |-> "none", null |-> FALSE, data |-> <<>>, size |-> 0, realSize |-> 0,
     width |-> 0, height |-> 0, doubleLayer |-> FALSE]

NoFrame == [rawSize |-> 0, zipSize |-> 0, version |-> 0]

NoRet == [data |-> <<>>, ok |-> FALSE, image |-> EmptyImage]

Snapshot == [out |-> out.bytes, wire |-> wire.bytes, rpos |-> wire.rpos]

HeaderSize == 4 + 4 + 2 + 2

\* The operations share no state: each call sets every variable it reads.
\* So a behaviour either makes one call of a primitive or of the image
\* decoder, from the state in which nothing has been called yet, or it works
\* on the streams.
Fresh == call.op = "none" /\ written = <<>> /\ reads = <<>>

OnStreams == call.op \in {"none", "zipStreamBuf", "unzipStream"}

(* -------------------------------- Init -------------------------------- *)

InitWith(mode) ==
    /\ lib = mode
    /\ wire \in {NewStream(c) : c \in {NoCap, WireCap}}
    /\ out \in {NewStream(c) : c \in {NoCap, OutCap}}
    /\ pc = "idle"
    /\ call = NoCall
    /\ frame = NoFrame
    /\ src = <<>>
    /\ resSize = 0
    /\ ret = NoRet
    /\ logged = FALSE
    /\ libCalls = 0
    /\ pre = [out |-> <<>>, wire |-> <<>>, rpos |-> 0]
    /\ written = <<>>
    /\ reads = <<>>

Init == InitWith("zlib")

InitAnyLib == InitWith("any")

(* ------------------------------ unzipData ----------------------------- *)

\* Mutant of unzipDataEnter: the empty source is not refused.
unzipDataEnter_noEmptyCheck(null, srcSize, realSize) ==
    IF null
    THEN [stop |-> TRUE, logged |-> FALSE, size |-> 0]
    ELSE IF ToULong(srcSize) # srcSize
    THEN [stop |-> TRUE, logged |-> TRUE, size |-> 0]
    ELSE LET size == IF realSize # 0 THEN realSize
                     ELSE IF srcSize > max_size \div sizeMultiplier
                          THEN srcSize
                          ELSE srcSize * sizeMultiplier
         IN  IF ToULong(size) # size
             THEN [stop |-> TRUE, logged |-> TRUE, size |-> size]
             ELSE [stop |-> FALSE, logged |-> FALSE, size |-> size]

\* Lines 42-72: the checks and the first working buffer.  [stop, logged, size]:
\* stop when unzipData returns {} before the loop.
unzipDataEnter(null, srcSize, realSize) ==
    IF null \/ srcSize = 0
    THEN [stop |-> TRUE, logged |-> FALSE, size |-> 0]
    ELSE IF ToULong(srcSize) # srcSize
    THEN [stop |-> TRUE, logged |-> TRUE, size |-> 0]
    ELSE LET size == IF realSize # 0 THEN realSize
                     ELSE IF srcSize > max_size \div sizeMultiplier
                          THEN srcSize
                          ELSE srcSize * sizeMultiplier
         IN  IF ToULong(size) # size
             THEN [stop |-> TRUE, logged |-> TRUE, size |-> size]
             ELSE [stop |-> FALSE, logged |-> FALSE, size |-> size]

\* The call of unzipData by the operation c on the bytes z with the hint
\* realSize: up to the loop, or to the return when a check fails.
EnterUnzipData(c, null, z, srcSize, realSize) ==
    LET e == unzipDataEnter(null, srcSize, realSize)
    IN  /\ call' = c
        /\ src' = z
        /\ resSize' = e.size
        /\ logged' = e.logged
        /\ libCalls' = 0
        /\ ret' = NoRet
        /\ pc' = IF e.stop THEN "ret" ELSE "loop"

\* A direct call of unzipData( src, srcSize, realSize ).
CallUnzipData ==
    /\ pc = "idle"
    /\ Fresh
    /\ \E null \in BOOLEAN, z \in Sources \cup {<<>>}, realSize \in RealSizes :
          /\ null => z \in {<<>>, Deflate(<<>>)}
          /\ EnterUnzipData([NoCall EXCEPT !.op = "unzipData", !.null = null,
                                           !.data = z, !.size = Len(z),
                                           !.realSize = realSize],
                            null, z, Len(z), realSize)
    /\ frame' = NoFrame
    /\ pre' = Snapshot
    /\ UNCHANGED <<lib, wire, out, written, reads>>

\* Mutant of tooLarge: the size is compared with max_size itself.
tooLarge_late(size) == size > max_size

\* Line 79: doubling the buffer would exceed max_size.
tooLarge(size) == size > max_size \div growMultiplier

\* Line 84: the size the buffer is resized to.
grownSize(size) == size * growMultiplier

\* The working buffer after a library call that wrote `data` to its front.
\* The vector was zero-initialised (line 52) and resize() adds zero bytes.
bufferWith(data, size) == data \o Fill(0, size - Len(data))

\* Mutant of resizeTo: the working buffer is returned as it is.
resizeTo_keep(buffer, n) == buffer

\* Line 98, res.resize( dstSizeULong ): the first n bytes of the buffer.
resizeTo(buffer, n) == Take(buffer, n)

\* One turn of the loop of lines 75-91: the library call and, when it
\* answers Z_BUF_ERROR, the doubling of the buffer; lines 93-100 when it
\* answers anything else.
UnzipLoop ==
    /\ pc = "loop"
    /\ \E r \in uncompressAnswers(lib, src, resSize) :
          /\ libCalls' = libCalls + 1
          /\ IF r.ret = Z_BUF_ERROR
             THEN IF tooLarge(resSize)
                  THEN /\ logged' = TRUE
                       /\ pc' = "ret"
                       /\ UNCHANGED <<resSize, ret>>
                  ELSE /\ resSize' = grownSize(resSize)
                       /\ IF ToULong(resSize') # resSize'
                          THEN logged' = TRUE /\ pc' = "ret"
                          ELSE UNCHANGED <<logged, pc>>
                       /\ UNCHANGED ret
             ELSE IF r.ret # Z_OK
             THEN /\ logged' = TRUE
                  /\ pc' = "ret"
                  /\ UNCHANGED <<resSize, ret>>
             ELSE /\ ret' = [ret EXCEPT
                               !.data = resizeTo(bufferWith(r.data, resSize),
                                                 r.len)]
                  /\ resSize' = Len(ret'.data)
                  /\ pc' = "ret"
                  /\ UNCHANGED logged
    /\ UNCHANGED <<lib, wire, out, call, frame, src, pre, written, reads>>

\* The direct call returns.
UnzipDataReturn ==
    /\ pc = "ret"
    /\ call.op = "unzipData"
    /\ pc' = "idle"
    /\ UNCHANGED <<lib, wire, out, call, frame, src, resSize, ret, logged,
                   libCalls, pre, written, reads>>

(* --------------------------- calls of zipData ------------------------- *)

\* A direct call of zipData( src, srcSize ).
CallZipData ==
    /\ pc = "idle"
    /\ Fresh
    /\ \E null \in BOOLEAN, B \in Buffers \cup {<<>>} :
          /\ null => B \in {<<>>, <<0>>}
          /\ \E z \in zipData(lib, null, B, Len(B)) :
                /\ call' = [NoCall EXCEPT !.op = "zipData", !.null = null,
                                          !.data = B, !.size = Len(B)]
                /\ ret' = [NoRet EXCEPT !.data = z.data]
                /\ logged' = z.logged
                /\ libCalls' = z.libCalls
    /\ src' = <<>>
    /\ resSize' = 0
    /\ frame' = NoFrame
    /\ pre' = Snapshot
    /\ UNCHANGED <<lib, wire, out, pc, written, reads>>

(* ----------------------------- zipStreamBuf --------------------------- *)

\* Mutant of putBlock: the two size fields change places.
putBlock_swapped(s, rawSize, zip) ==
    putRaw(put16(put16(put32(put32(s, Len(zip)), rawSize), FORMAT_VERSION_0),
                 0),
           zip)

\* Mutant of putBlock: the reserved field is left out.
putBlock_noReserved(s, rawSize, zip) ==
    putRaw(put16(put32(put32(s, rawSize), Len(zip)), FORMAT_VERSION_0), zip)

\* The writes of lines 168-172 to the stream s.
putBlock(s, rawSize, zip) ==
    putRaw(put16(put16(put32(put32(s, rawSize), Len(zip)), FORMAT_VERSION_0),
                 0),
           zip)

\* zipStreamBuf( inputStream, outputStream ) with the buffer B as input and
\* the wire as output, lines 163-174.
ZipStreamBuf ==
    /\ pc = "idle"
    /\ OnStreams
    /\ Len(written) < MaxBlocks
    /\ \A i \in 1..Len(written) : written[i].kind = "zip"
    /\ \E B \in StreamBuffers :
          \E z \in zipData(lib, FALSE, B, Len(B)) :
             LET w == IF z.data = <<>> THEN wire
                      ELSE putBlock(wire, Len(B), z.data)
                 ok == IF z.data = <<>> THEN FALSE ELSE ~w.fail
             IN  /\ wire' = w
                 /\ call' = [NoCall EXCEPT !.op = "zipStreamBuf", !.data = B,
                                           !.size = Len(B)]
                 /\ ret' = [NoRet EXCEPT !.ok = ok]
                 /\ logged' = z.logged
                 /\ libCalls' = z.libCalls
                 /\ written' = Append(written,
                                      [kind |-> "zip", data |-> B, ok |-> ok,
                                       clean |-> ~wire.fail])
    /\ src' = <<>>
    /\ resSize' = 0
    /\ frame' = NoFrame
    /\ pre' = Snapshot
    /\ UNCHANGED <<lib, out, pc, reads>>

\* Blocks not written by zipStreamBuf: the block of B with one field changed.
ForeignBlocks(B) ==
    LET z == Deflate(B)
        good == [rawSize |-> Len(B), zipSize |-> Len(z), version |-> 0,
                 reserved |-> 0, zip |-> z]
    IN  {[good EXCEPT !.rawSize = n] :
            n \in {0, Len(B) - 1, Len(B) + 1} \ {Len(B)}}
        \cup {[good EXCEPT !.zipSize = 0],
              [good EXCEPT !.version = 1],
              [good EXCEPT !.reserved = 1],
              [good EXCEPT !.zip = <<BadByte>> \o Tail(z)],
              [good EXCEPT !.zip = <<BadByte>> \o Tail(z), !.rawSize = 0]}

\* Another writer puts a block of its own making on the wire.
PutForeignBlock ==
    /\ pc = "idle"
    /\ OnStreams
    /\ Len(written) < MaxBlocks
    /\ \A i \in 1..Len(written) : written[i].kind = "zip"
    /\ \E B \in StreamBuffers \ {<<>>} :
          \E f \in ForeignBlocks(B) :
             /\ wire' = putRaw(wire,
                               LEBytes(f.rawSize, 4) \o LEBytes(f.zipSize, 4)
                                 \o LEBytes(f.version, 2)
                                 \o LEBytes(f.reserved, 2) \o f.zip)
             /\ written' = Append(written,
                                  [kind |-> "foreign", data |-> B, ok |-> TRUE,
                                   clean |-> ~wire.fail])
    /\ call' = NoCall
    /\ ret' = NoRet
    /\ logged' = FALSE
    /\ libCalls' = 0
    /\ src' = <<>>
    /\ resSize' = 0
    /\ frame' = NoFrame
    /\ pre' = Snapshot
    /\ UNCHANGED <<lib, out, pc, reads>>

(* ------------------------------ unzipStream --------------------------- *)

\* Mutant of readBlock: the reserved bytes are not skipped.
readBlock_noSkip(s) ==
    LET rawSize == get32(s)
        zipSize == get32(rawSize.s)
        version == get16(zipSize.s)
        zip     == getRaw(version.s, zipSize.v)
    IN  IF zipSize.v = 0
        THEN [stop |-> TRUE, s |-> zipSize.s, rawSize |-> rawSize.v,
              zipSize |-> 0, version |-> 0, zip |-> <<>>]
        ELSE IF version.v # FORMAT_VERSION_0
        THEN [stop |-> TRUE, s |-> version.s, rawSize |-> rawSize.v,
              zipSize |-> zipSize.v, version |-> version.v, zip |-> <<>>]
        ELSE [stop |-> FALSE, s |-> zip.s, rawSize |-> rawSize.v,
              zipSize |-> zipSize.v, version |-> version.v, zip |-> zip.v]

\* Lines 137-150 on the input stream s: the header fields and the payload.
\* stop: unzipStream returns false at line 140 or 145, and s is the stream as
\* it is then.
readBlock(s) ==
    LET rawSize == get32(s)
        zipSize == get32(rawSize.s)
        version == get16(zipSize.s)
        zip     == getRaw(skip(version.s, 2), zipSize.v)
    IN  IF zipSize.v = 0
        THEN [stop |-> TRUE, s |-> zipSize.s, rawSize |-> rawSize.v,
              zipSize |-> 0, version |-> 0, zip |-> <<>>]
        ELSE IF version.v # FORMAT_VERSION_0
        THEN [stop |-> TRUE, s |-> version.s, rawSize |-> rawSize.v,
              zipSize |-> zipSize.v, version |-> version.v, zip |-> <<>>]
        ELSE [stop |-> FALSE, s |-> zip.s, rawSize |-> rawSize.v,
              zipSize |-> zipSize.v, version |-> version.v, zip |-> zip.v]

\* unzipStream( inputStream, outputStream ) with the wire as input and out as
\* output, lines 137-151: the header, the payload and the call of unzipData.
UnzipStreamBegin ==
    /\ pc = "idle"
    /\ OnStreams
    /\ Len(reads) <= Len(written)
    /\ \A i \in 1..Len(reads) : reads[i].ok
    /\ LET b == readBlock(wire)
           c == [NoCall EXCEPT !.op = "unzipStream"]
       IN  /\ pre' = Snapshot
           /\ wire' = b.s
           /\ frame' = [rawSize |-> b.rawSize, zipSize |-> b.zipSize,
                        version |-> b.version]
           /\ IF b.stop
              THEN /\ reads' = Append(reads,
                                      [ok |-> FALSE, got |-> <<>>,
                                       used |-> b.s.rpos - wire.rpos,
                                       zipSize |-> b.zipSize,
                                       avail |-> Len(wire.bytes) - wire.rpos,
                                       clean |-> ~out.fail])
                   /\ call' = c
                   /\ ret' = NoRet
                   /\ logged' = FALSE
                   /\ libCalls' = 0
                   /\ src' = <<>>
                   /\ resSize' = 0
                   /\ UNCHANGED pc
              ELSE /\ EnterUnzipData(c, FALSE, b.zip, Len(b.zip), b.rawSize)
                   /\ UNCHANGED reads
    /\ UNCHANGED <<lib, out, written>>

\* Mutant of sizeMatches: more bytes than the header says are accepted.
sizeMatches_atLeast(raw, rawSize) == Len(raw) >= rawSize

\* Line 152: the decompressed bytes are as many as the header says.
sizeMatches(raw, rawSize) == Len(raw) = rawSize

\* Mutant of finishBlock: the bytes are written before the size is checked.
finishBlock_writeFirst(o, raw, rawSize) ==
    LET w == putRaw(o, raw)
    IN  IF Len(raw) # rawSize THEN [out |-> w, ok |-> FALSE]
        ELSE [out |-> w, ok |-> ~w.fail]

\* Lines 152-158 on the output stream o: [out |-> the stream afterwards,
\* ok |-> what unzipStream returns].
finishBlock(o, raw, rawSize) ==
    IF ~sizeMatches(raw, rawSize)
    THEN [out |-> o, ok |-> FALSE]
    ELSE LET w == putRaw(o, raw) IN [out |-> w, ok |-> ~w.fail]

\* Lines 152-158, once unzipData has returned.
UnzipStreamEnd ==
    /\ pc = "ret"
    /\ call.op = "unzipStream"
    /\ LET f == finishBlock(out, ret.data, frame.rawSize)
       IN  /\ out' = f.out
           /\ ret' = [ret EXCEPT !.ok = f.ok]
           /\ reads' = Append(reads,
                              [ok |-> f.ok,
                               got |-> Drop(f.out.bytes, Len(pre.out)),
                               used |-> wire.rpos - pre.rpos,
                               zipSize |-> frame.zipSize,
                               avail |-> Len(pre.wire) - pre.rpos,
                               clean |-> ~out.fail])
    /\ pc' = "idle"
    /\ UNCHANGED <<lib, wire, call, frame, src, resSize, logged, libCalls, pre,
                   written>>

(* -------------------------- CreateImageFromZlib ----------------------- *)

\* CreateImageFromZlib( width, height, imageData, imageSize, doubleLayer ),
\* lines 179-183: the argument check and the call of unzipData.
CreateImageBegin ==
    /\ pc = "idle"
    /\ Fresh
    /\ \E width \in Dims, height \in Dims, null \in BOOLEAN,
          z \in Sources \cup {<<>>}, doubleLayer \in BOOLEAN :
          LET c == [NoCall EXCEPT !.op = "CreateImageFromZlib",
                                  !.null = null, !.data = z, !.size = Len(z),
                                  !.width = width, !.height = height,
                                  !.doubleLayer = doubleLayer]
          IN  /\ null => z \in {<<>>, Deflate(<<>>)}
              /\ IF null \/ Len(z) = 0 \/ width <= 0 \/ height <= 0
                 THEN /\ call' = c
                      /\ ret' = NoRet
                      /\ logged' = FALSE
                      /\ libCalls' = 0
                      /\ src' = <<>>
                      /\ resSize' = 0
                      /\ UNCHANGED pc
                 ELSE EnterUnzipData(c, FALSE, z, Len(z), 0)
    /\ frame' = NoFrame
    /\ pre' = Snapshot
    /\ UNCHANGED <<lib, wire, out, written, reads>>

\* Mutant of CreateImage: an odd length is not refused for a double layer.
CreateImage_noOddCheck(width, height, uncompressedData, doubleLayer) ==
    LET uncompressedSize == IF doubleLayer
                            THEN Len(uncompressedData) \div 2
                            ELSE Len(uncompressedData)
    IN  IF width * height # uncompressedSize
        THEN EmptyImage
        ELSE LET o == resize(IF doubleLayer THEN EmptyImage
                             ELSE disableTransformLayer(EmptyImage),
                             width, height)
             IN  [o EXCEPT
                    !.image = memcpy(@, uncompressedData, uncompressedSize),
                    !.transform =
                       IF doubleLayer
                       THEN memcpy(@, Drop(uncompressedData, uncompressedSize),
                                   uncompressedSize)
                       ELSE @]

\* Mutant of CreateImage: the transform plane is copied from the start of
\* the data.
CreateImage_sameHalf(width, height, uncompressedData, doubleLayer) ==
    IF doubleLayer /\ Len(uncompressedData) % 2 = 1
    THEN EmptyImage
    ELSE LET uncompressedSize == IF doubleLayer
                                 THEN Len(uncompressedData) \div 2
                                 ELSE Len(uncompressedData)
         IN  IF width * height # uncompressedSize
             THEN EmptyImage
             ELSE LET o == resize(IF doubleLayer THEN EmptyImage
                                  ELSE disableTransformLayer(EmptyImage),
                                  width, height)
                  IN  [o EXCEPT
                         !.image = memcpy(@, uncompressedData, uncompressedSize),
                         !.transform =
                            IF doubleLayer
                            THEN memcpy(@, uncompressedData, uncompressedSize)
                            ELSE @]

\* Lines 184-204 on the bytes unzipData returned.
CreateImage(width, height, uncompressedData, doubleLayer) ==
    IF doubleLayer /\ Len(uncompressedData) % 2 = 1
    THEN EmptyImage
    ELSE LET uncompressedSize == IF doubleLayer
                                 THEN Len(uncompressedData) \div 2
                                 ELSE Len(uncompressedData)
         IN  IF width * height # uncompressedSize
             THEN EmptyImage
             ELSE LET o == resize(IF doubleLayer THEN EmptyImage
                                  ELSE disableTransformLayer(EmptyImage),
                                  width, height)
                  IN  [o EXCEPT
                         !.image = memcpy(@, uncompressedData, uncompressedSize),
                         !.transform =
                            IF doubleLayer
                            THEN memcpy(@, Drop(uncompressedData,
                                                uncompressedSize),
                                        uncompressedSize)
                            ELSE @]

CreateImageEnd ==
    /\ pc = "ret"
    /\ call.op = "CreateImageFromZlib"
    /\ ret' = [ret EXCEPT !.image = CreateImage(call.width, call.height,
                                                ret.data, call.doubleLayer)]
    /\ pc' = "idle"
    /\ UNCHANGED <<lib, wire, out, call, frame, src, resSize, logged, libCalls,
                   pre, written, reads>>

(* ---------------------------- specifications -------------------------- *)

Next ==
    \/ CallUnzipData
    \/ UnzipLoop
    \/ UnzipDataReturn
    \/ CallZipData
    \/ ZipStreamBuf
    \/ PutForeignBlock
    \/ UnzipStreamBegin
    \/ UnzipStreamEnd
    \/ CreateImageBegin
    \/ CreateImageEnd

Spec == Init /\ [][Next]_vars

\* The primitives with a library that may answer anything.  The loop of
\* unzipData runs on once entered: no operation suspends.
NextAnyLib ==
    \/ CallUnzipData
    \/ UnzipLoop
    \/ UnzipDataReturn
    \/ CallZipData

SpecAnyLib == InitAnyLib /\ [][NextAnyLib]_vars /\ WF_vars(UnzipLoop)

(* ------------------------------- claims ------------------------------- *)

\* An operation has returned to its caller.
Returned(op) == call.op = op /\ pc = "idle"

\* The bytes the last operation appended to the wire.
WireAppended == Drop(wire.bytes, Len(pre.wire))

\* What the library makes of the compressed bytes z, given room enough.
Inflated(z) == uncompress(z, max_size)

\* C1.  Framing round trip: zipStreamBuf on a non-empty buffer B into a
\* fresh unbounded stream returns true and writes the 32-bit length of B and
\* of its compressed form as the size fields; unzipStream on that stream then
\* returns true and appends exactly the bytes of B to its output.
C1_FramingRoundTrip ==
    (/\ Len(written) >= 1
     /\ written[1].kind = "zip"
     /\ written[1].data # <<>>
     /\ written[1].clean
     /\ wire.cap = NoCap)
    => /\ written[1].ok
       /\ LEValue(SubSeq(wire.bytes, 1, 4)) = Len(written[1].data)
       /\ LEValue(SubSeq(wire.bytes, 5, 8)) = Len(Deflate(written[1].data))
       /\ (Len(reads) >= 1 /\ reads[1].avail > 0 /\ out.cap = NoCap)
          => reads[1].ok /\ reads[1].got = written[1].data

C1_Witness ==
    /\ Len(written) = 1
    /\ written[1].kind = "zip"
    /\ written[1].data = <<0, 1>>
    /\ Returned("unzipStream")
    /\ ret.ok
    /\ out.bytes = <<0, 1>>

\* C2.  Primitive round trip with growth: unzipData without a size hint on
\* what zipData made of a non-empty buffer B returns exactly B, also when B
\* is longer than 7 times its compressed form and the buffer is doubled, and
\* so a vector of the decompressed length, not of the buffer's size.
C2_RoundTripWithGrowth ==
    \A B \in Buffers :
       (/\ call.op = "unzipData"
        /\ pc \in {"ret", "idle"}
        /\ ~call.null
        /\ call.realSize = 0
        /\ call.data = Zipped(B))
       => ret.data = B /\ ~logged

C2_Witness ==
    /\ Returned("unzipData")
    /\ call.realSize = 0
    /\ Len(call.data) * sizeMultiplier * growMultiplier < Len(ret.data)
    /\ libCalls = 3
    /\ call.data = Zipped(ret.data)

\* C3.  unzipStream returns false when the compressedSize field is 0, when
\* the formatVersion field is not 0, and when the payload decompresses to a
\* length other than the rawSize field, be rawSize smaller (the buffer is
\* then grown by doubling) or larger.
C3_Rejection ==
    Returned("unzipStream")
    => /\ frame.zipSize = 0 => ~ret.ok
       /\ frame.version # FORMAT_VERSION_0 => ~ret.ok
       /\ (/\ frame.zipSize # 0
           /\ frame.version = FORMAT_VERSION_0
           /\ Inflated(src).ret = Z_OK
           /\ Inflated(src).len # frame.rawSize)
          => ~ret.ok

C3_Witness ==
    /\ Returned("unzipStream")
    /\ frame.zipSize # 0
    /\ frame.rawSize > 0
    /\ Inflated(src).ret = Z_OK
    /\ Inflated(src).len > frame.rawSize
    /\ libCalls >= 2
    /\ ~ret.ok

PlaneSize(n, doubleLayer) == IF doubleLayer THEN n \div 2 ELSE n

\* C5.  CreateImageFromZlib returns the empty image when decompression
\* fails, when doubleLayer is set and the decompressed length is odd, and
\* when width * height is not the plane size; an image it returns holds no
\* byte that was not written.
C5_ImageRejection ==
    Returned("CreateImageFromZlib")
    => LET d == Inflated(call.data)
       IN  /\ (\/ call.null
               \/ d.ret # Z_OK
               \/ d.len = 0
               \/ call.doubleLayer /\ d.len % 2 = 1
               \/ call.width * call.height # PlaneSize(d.len, call.doubleLayer))
              => ret.image = EmptyImage
           /\ \A i \in 1..Len(ret.image.image) : ret.image.image[i] # Junk
           /\ \A i \in 1..Len(ret.image.transform) :
                 ret.image.transform[i] # Junk

C5_Witness ==
    /\ Returned("CreateImageFromZlib")
    /\ call.doubleLayer
    /\ call.width > 0
    /\ Inflated(call.data).ret = Z_OK
    /\ Inflated(call.data).len = 3
    /\ call.width * call.height = 1
    /\ ret.image = EmptyImage

\* C6.  For width > 0, height > 0 and a payload whose decompressed bytes D
\* pass the size checks, the image is width x height, its colour-index plane
\* is D[0 : planeSize], its transform plane is D[planeSize : 2 * planeSize]
\* for a double layer, and disabled and empty for a single layer.
C6_ImageContents ==
    LET d == Inflated(call.data)
        n == PlaneSize(d.len, call.doubleLayer)
    IN  (/\ Returned("CreateImageFromZlib")
         /\ ~call.null
         /\ call.width > 0
         /\ call.height > 0
         /\ d.ret = Z_OK
         /\ call.doubleLayer => d.len % 2 = 0
         /\ call.width * call.height = n)
        => /\ ret.image.width = call.width
           /\ ret.image.height = call.height
           /\ ret.image.image = SubSeq(d.data, 1, n)
           /\ call.doubleLayer
              => /\ ~ret.image.singleLayer
                 /\ ret.image.transform = SubSeq(d.data, n + 1, 2 * n)
           /\ ~call.doubleLayer
              => /\ ret.image.singleLayer
                 /\ ret.image.transform = <<>>

C6_Witness ==
    /\ Returned("CreateImageFromZlib")
    /\ call.doubleLayer
    /\ call.width = 2
    /\ call.height = 1
    /\ ret.image.image = <<0, 1>>
    /\ ret.image.transform = <<1, 1>>

\* C7.  A successful zipStreamBuf appends to the output stream, in this
\* order and nothing else: the length of the source as a 32-bit field, the
\* compressed length as a 32-bit field, the 16-bit version 0, a 16-bit 0,
\* and the compressed bytes: 12 + compressedSize bytes in all.
C7_BlockLayout ==
    (Returned("zipStreamBuf") /\ ret.ok)
    => LET a == WireAppended
           z == Drop(a, HeaderSize)
       IN  /\ Len(a) >= HeaderSize
           /\ LEValue(SubSeq(a, 1, 4)) = Len(call.data)
           /\ LEValue(SubSeq(a, 5, 8)) = Len(z)
           /\ SubSeq(a, 9, 10) = <<FORMAT_VERSION_0, 0>>
           /\ SubSeq(a, 11, 12) = <<0, 0>>
           /\ z = Zipped(call.data)
           /\ Inflated(z).ret = Z_OK
           /\ Inflated(z).data = call.data
           /\ Len(a) = HeaderSize + Len(Deflate(call.data))

C7_Witness ==
    /\ Returned("zipStreamBuf")
    /\ ret.ok
    /\ call.data = <<0, 1>>
    /\ Len(pre.wire) > 0
    /\ Len(WireAppended) = HeaderSize + 3

\* C8.  The loop of unzipData terminates whatever the library answers: the
\* working buffer is never empty and never larger than max_size when the
\* library is called, each retry doubles it exactly, and the call ends with
\* the library's result or, once an error was logged (a library error, or a
\* doubling that would exceed max_size), with an empty result.
C8_LoopTerminates ==
    /\ [](pc = "loop" => resSize > 0 /\ resSize <= max_size)
    /\ [][(pc = "loop" /\ pc' = "loop")
             => /\ resSize' = 2 * resSize
                /\ libCalls' = libCalls + 1]_vars
    /\ [][(pc = "loop" /\ pc' = "ret")
             => /\ logged' => ret'.data = <<>>
                /\ ~logged' => Len(ret'.data) <= resSize]_vars
    /\ (pc = "loop") ~> (pc = "ret")

C8_Witness ==
    /\ pc = "ret"
    /\ call.op = "unzipData"
    /\ call.realSize = 0
    /\ logged
    /\ libCalls >= 3
    /\ resSize > max_size \div 2
    /\ ret.data = <<>>

\* C9, as claimed.  When unzipStream or zipStreamBuf returns false, its
\* output stream holds exactly the bytes it held before the call.
C9_AsClaimed ==
    /\ (Returned("zipStreamBuf") /\ ~ret.ok) => wire.bytes = pre.wire
    /\ (Returned("unzipStream") /\ ~ret.ok) => out.bytes = pre.out

\* C9, amended.  When unzipStream or zipStreamBuf returns false and its
\* output stream reports no fault, the output stream holds exactly the bytes
\* it held before the call.
C9_NoPartialOutput ==
    /\ (Returned("zipStreamBuf") /\ ~ret.ok /\ ~wire.fail)
       => wire.bytes = pre.wire
    /\ (Returned("unzipStream") /\ ~ret.ok /\ ~out.fail)
       => out.bytes = pre.out

C9_Witness ==
    /\ Returned("unzipStream")
    /\ ~ret.ok
    /\ ~out.fail
    /\ frame.zipSize # 0
    /\ frame.version = FORMAT_VERSION_0
    /\ Len(ret.data) > frame.rawSize
    /\ out.bytes = pre.out
    /\ out.bytes # <<>>

WrittenByZip(n) ==
    /\ n <= Len(written)
    /\ \A j \in 1..n :
          written[j].kind = "zip" /\ written[j].ok /\ written[j].data # <<>>

=============================================================================
